---- MODULE Spec2Model ----
(***************************************************************************)
(* Order / payment / session-booking lifecycle of the Don Records site.    *)
(*                                                                         *)
(* The persisted store is the committed content of the tables; a request   *)
(* that spans several commits (checkout, book_session) is a process with   *)
(* a position, and its uncommitted SQLAlchemy session content is local to  *)
(* it.  Money is counted in whole units (the code uses floats; every sum   *)
(* the model compares is accumulated in the same order as the code does).  *)
(***************************************************************************)
EXTENDS Integers, Sequences, FiniteSets, TLC

\* ------------------------------------------------------------------ bounds
MaxClock == 2        \* readings of datetime.utcnow() that are told apart: 1..MaxClock
MaxPrice == 2        \* largest catalog price
MaxQty == 2          \* largest quantity of a cart line
InitStock == 2       \* stock_quantity of the merchandise row at start
MaxTime == 3         \* times of day a booking form can name, in half hours: 0..MaxTime
MaxMessages == 3     \* rows of the messages table
MaxTransactions == 2 \* rows of the transactions table
MaxOrders == 1       \* orders created
MaxBookings == 2     \* rows of the session_bookings table
MaxPaidBookings == 1 \* bookings in the runs that follow payments
MaxSlots == 6        \* latest end of a session in the runs that follow prices, in half hours

\* --------------------------------------------------------------- constants
AdminId == 1         \* sender_id=1, "Admin user ID"
HourlyRate == 50
MinHours == 2
SlotsPerHour == 2    \* the model's unit of time of day is half an hour

Null == 0            \* a NULL id or timestamp column, a missing id in a request
None == "none"       \* a NULL text column, a missing text field of a form or body
Anon == 0            \* an unauthenticated caller

ArtistA == 2
ProducerP == 3
ArtistB == 4
ProducerQ == 5
AdminB == 6
Users == {AdminId, ArtistA, ProducerP, ArtistB, ProducerQ, AdminB}

RoleAdminForAll(u) == "admin"

Role(u) ==
    IF u \in {AdminId, AdminB} THEN "admin"
    ELSE IF u \in {ProducerP, ProducerQ} THEN "producer"
    ELSE IF u \in {ArtistA, ArtistB} THEN "artist"
    ELSE "anonymous"

Clients == {1, 2}    \* browser sessions, each with its own cart
ClientUser(c) == IF c = 1 THEN ArtistA ELSE ArtistB

BeatIds == {1}
MerchIds == {1}

OrderStatus == {"pending", "paid", "shipped", "delivered", "cancelled"}
TransactionStatus == {"pending", "completed", "failed", "refunded"}
PaymentMethod == {"paypal", "mpesa"}
SessionStatus == {"requested", "confirmed", "completed", "cancelled"}

VARIABLES
    beats,          \* beats table: id -> [exists, price, is_published]
    merch,          \* merchandise table: id -> [price, is_published, stock_quantity]
    cart,           \* session['cart'] of each client
    orders,         \* orders table: committed id -> row
    orderItems,     \* order_items table, in insertion order
    transactions,   \* transactions table, in insertion order (row i has transaction_id i)
    bookings,       \* session_bookings table, in insertion order
    messages,       \* messages table, in insertion order
    nextOrderId,    \* next primary key the orders table hands out at flush
    now,            \* datetime.utcnow()
    co,             \* the checkout request in flight for each client
    bk,             \* the book_session request in flight for each client
    ad,             \* the update_order_status request in flight
    users,          \* ids of the rows of the users table
    resp            \* the last response sent

vars == <<beats, merch, cart, orders, orderItems, transactions, bookings,
          messages, nextOrderId, now, co, bk, ad, users, resp>>

storeVars == <<orders, orderItems, transactions, bookings, messages>>

\* ------------------------------------------------------------------ helpers
Idle == [pc |-> "idle"]

Quiescent ==
    /\ \A c \in Clients : co[c].pc = "idle" /\ bk[c].pc = "idle"
    /\ ad.pc = "idle"

MessageToSender(sender, recipient, subject, about) ==
    [sender_id |-> sender, recipient_id |-> sender, subject |-> subject,
     about |-> about]

Message(sender, recipient, subject, about) ==
    [sender_id |-> sender, recipient_id |-> recipient, subject |-> subject,
     about |-> about]

\* a JSON object as the handlers read it: a key that is absent reads as None
Details(transaction_id, status, session_id, type) ==
    [transaction_id |-> transaction_id, status |-> status, session_id |-> session_id,
     type |-> type]

EmptyDetails == Details(Null, None, Null, None)

\* the payment_details column when it is NULL
NoDetails == [is_null |-> TRUE]

\* Transaction.set_payment_details: json.dumps of the dict
SetPaymentDetails(details_dict) == details_dict

\* Transaction.get_payment_details: json.loads of the column, {} when it is empty
GetPaymentDetails(t) ==
    IF t.payment_details # NoDetails THEN t.payment_details ELSE EmptyDetails

InitStore(beatPrice, merchPrice) ==
    /\ beats = [b \in BeatIds |-> [exists |-> TRUE, price |-> beatPrice, is_published |-> TRUE]]
    /\ merch = [m \in MerchIds |-> [price |-> merchPrice, is_published |-> TRUE,
                                    stock_quantity |-> InitStock]]
    /\ cart = [c \in Clients |-> <<>>]
    /\ orders = [i \in {} |-> Null]
    /\ orderItems = <<>>
    /\ transactions = <<>>
    /\ bookings = <<>>
    /\ messages = <<>>
    /\ nextOrderId = 1
    /\ now = 1
    /\ co = [c \in Clients |-> Idle]
    /\ bk = [c \in Clients |-> Idle]
    /\ ad = Idle
    /\ users = Users
    /\ resp = [op |-> "none", code |-> None]

\* datetime.utcnow() moves on between requests
Tick ==
    /\ now < MaxClock
    /\ now' = now + 1
    /\ UNCHANGED <<beats, merch, cart, orders, orderItems, transactions, bookings,
                   messages, nextOrderId, co, bk, resp, ad, users>>

\* -------------------------------------------------------------------- cart
CartIndex(items, item_id, item_type) ==
    {i \in 1..Len(items) : items[i].id = item_id /\ items[i].type = item_type}

Min(S) == CHOOSE x \in S : \A y \in S : x <= y

\* main.add_to_cart
AddToCart(c, item_id, item_type, quantity) ==
    /\ co[c].pc = "idle"
    /\ LET hits == CartIndex(cart[c], item_id, item_type)
           missing == item_type = "beat" /\ ~beats[item_id].exists
           short == item_type = "merchandise" /\ merch[item_id].stock_quantity < quantity
       IN  IF missing
           THEN /\ resp' = [op |-> "add_to_cart", code |-> "404"]
                /\ UNCHANGED cart
           ELSE IF short
           THEN /\ resp' = [op |-> "add_to_cart", code |-> "out_of_stock"]
                /\ UNCHANGED cart
           ELSE IF hits # {}
           THEN /\ cart' = [cart EXCEPT ![c][Min(hits)].quantity = @ + quantity]
                /\ resp' = [op |-> "add_to_cart", code |-> "updated"]
           ELSE /\ cart' = [cart EXCEPT ![c] = Append(@, [id |-> item_id, type |-> item_type,
                                                           quantity |-> quantity])]
                /\ resp' = [op |-> "add_to_cart", code |-> "added"]
    /\ UNCHANGED <<beats, merch, orders, orderItems, transactions, bookings, messages,
                   nextOrderId, now, co, bk, ad, users>>

\* main.remove_from_cart: the first line of that item is deleted
RemoveFromCart(c, item_type, item_id) ==
    /\ co[c].pc = "idle"
    /\ LET hits == CartIndex(cart[c], item_id, item_type)
       IN  cart' = [cart EXCEPT ![c] =
                      IF hits = {} THEN @
                      ELSE SubSeq(@, 1, Min(hits) - 1) \o SubSeq(@, Min(hits) + 1, Len(@))]
    /\ resp' = [op |-> "remove_from_cart", code |-> "removed"]
    /\ UNCHANGED <<beats, merch, orders, orderItems, transactions, bookings, messages,
                   nextOrderId, now, co, bk, ad, users>>

\* the quantity update_cart stores for one posted line
PostedQuantity(line) ==
    IF line.type = "merchandise" /\ merch[line.id].stock_quantity < line.quantity
    THEN merch[line.id].stock_quantity
    ELSE line.quantity

\* the loop of main.update_cart over the posted lines
RECURSIVE UpdatedCart(_, _)
UpdatedCart(items, form) ==
    IF form = <<>> THEN items
    ELSE LET line == Head(form)
             hits == CartIndex(items, line.id, line.type)
         IN  UpdatedCart(IF hits = {} THEN items
                         ELSE [items EXCEPT ![Min(hits)].quantity = PostedQuantity(line)],
                         Tail(form))

\* main.update_cart; form is the posted list of (item_id, item_type, quantity)
UpdateCart(c, form) ==
    /\ co[c].pc = "idle"
    /\ cart' = [cart EXCEPT ![c] = UpdatedCart(@, form)]
    /\ resp' = [op |-> "update_cart", code |-> "updated"]
    /\ UNCHANGED <<beats, merch, orders, orderItems, transactions, bookings, messages,
                   nextOrderId, now, co, bk, ad, users>>

\* producer.edit_beat (the fields the order pipeline reads)
EditBeat(b, price, published) ==
    /\ beats[b].exists
    /\ beats' = [beats EXCEPT ![b].price = price, ![b].is_published = published]
    /\ resp' = [op |-> "edit_beat", code |-> "updated"]
    /\ UNCHANGED <<merch, cart, orders, orderItems, transactions, bookings, messages,
                   nextOrderId, now, co, bk, ad, users>>

\* Beat.producer_id: every beat of the catalog was uploaded by ProducerP
BeatProducer(b) == ProducerP

\* producer.delete_beat; the order items of the beat lose their beat_id (the
\* relationship Beat.order_items has no delete cascade)
DeleteBeat(caller, b) ==
    /\ IF Role(caller) # "producer"
       THEN /\ resp' = [op |-> "delete_beat", code |-> "access_denied"]
            /\ UNCHANGED <<beats, orderItems, users>>
       ELSE IF ~(b \in BeatIds /\ beats[b].exists /\ BeatProducer(b) = caller)
       THEN /\ resp' = [op |-> "delete_beat", code |-> "404"]
            /\ UNCHANGED <<beats, orderItems, users>>
       ELSE /\ beats' = [beats EXCEPT ![b].exists = FALSE]
            /\ orderItems' = [i \in 1..Len(orderItems) |->
                                 IF orderItems[i].beat_id = b
                                 THEN [orderItems[i] EXCEPT !.beat_id = Null]
                                 ELSE orderItems[i]]
            /\ resp' = [op |-> "delete_beat", code |-> "deleted"]
    /\ UNCHANGED <<merch, cart, orders, transactions, bookings, messages,
                   nextOrderId, now, co, bk, ad, users>>

\* ---------------------------------------------------------------- checkout
ResolveLineWhateverPublished(item) ==
    IF item.type = "beat"
    THEN IF beats[item.id].exists
         THEN <<[id |-> item.id, type |-> "beat", price |-> beats[item.id].price,
                 quantity |-> item.quantity]>>
         ELSE <<>>
    ELSE <<[id |-> item.id, type |-> "merchandise", price |-> merch[item.id].price,
            quantity |-> item.quantity]>>

\* one pass of the loop "for item in cart_items" of checkout
ResolveLine(item) ==
    IF item.type = "beat"
    THEN IF beats[item.id].exists /\ beats[item.id].is_published
         THEN <<[id |-> item.id, type |-> "beat", price |-> beats[item.id].price,
                 quantity |-> item.quantity]>>
         ELSE <<>>
    ELSE IF item.type = "merchandise"
    THEN IF merch[item.id].is_published
         THEN <<[id |-> item.id, type |-> "merchandise", price |-> merch[item.id].price,
                 quantity |-> item.quantity]>>
         ELSE <<>>
    ELSE <<>>

RECURSIVE CartContents(_)
CartContents(items) ==
    IF items = <<>> THEN <<>>
    ELSE ResolveLine(Head(items)) \o CartContents(Tail(items))

RECURSIVE CartTotalOfPrices(_)
CartTotalOfPrices(lines) ==
    IF lines = <<>> THEN 0
    ELSE CartTotalOfPrices(SubSeq(lines, 1, Len(lines) - 1)) + lines[Len(lines)].price

\* total += product.price * item['quantity'], over the lines kept
RECURSIVE CartTotal(_)
CartTotal(lines) ==
    IF lines = <<>> THEN 0
    ELSE CartTotal(SubSeq(lines, 1, Len(lines) - 1))
         + lines[Len(lines)].price * lines[Len(lines)].quantity

\* the Merchandise rows the loop loaded into the session's identity map
LoadedMerch(items) ==
    [m \in MerchIds |->
        IF \E i \in 1..Len(items) : items[i].type = "merchandise" /\ items[i].id = m
        THEN [loaded |-> TRUE, stock_quantity |-> merch[m].stock_quantity]
        ELSE [loaded |-> FALSE, stock_quantity |-> 0]]

Expired == [m \in MerchIds |-> [loaded |-> FALSE, stock_quantity |-> 0]]

NewOrder(customer, total, notes) ==
    [customer_id |-> customer, status |-> "pending", total_amount |-> total,
     notes |-> notes, paid_at |-> Null, shipped_at |-> Null, delivered_at |-> Null]

NewOrderItem(oid, line) ==
    [order_id |-> oid, quantity |-> line.quantity, price |-> line.price,
     item_type |-> line.type,
     beat_id |-> IF line.type = "beat" THEN line.id ELSE Null,
     merchandise_id |-> IF line.type = "merchandise" THEN line.id ELSE Null]

NewTransactionUnlinked(oid, amount, method, details) ==
    [transaction_id |-> Len(transactions) + 1, order_id |-> Null, amount |-> amount,
     currency |-> "USD", status |-> "pending", payment_method |-> method,
     payment_details |-> details]

NewTransaction(oid, amount, method, details) ==
    [transaction_id |-> Len(transactions) + 1, order_id |-> oid, amount |-> amount,
     currency |-> "USD", status |-> "pending", payment_method |-> method,
     payment_details |-> details]

\* the orders table once the session's flushed Order row is committed
WithOrder(r) ==
    [i \in DOMAIN orders \cup {r.order_id} |->
        IF i \in DOMAIN orders THEN orders[i]
        ELSE NewOrder(r.customer_id, r.total, r.notes)]

\* checkout, lines 15-91: resolve the cart, validate the form, flush the Order
CheckoutBegin(c, auth, fields, method, notes) ==
    /\ co[c].pc = "idle"
    /\ UNCHANGED <<beats, merch, cart, orders, orderItems, transactions, bookings,
                   messages, now, bk, ad, users>>
    /\ IF cart[c] = <<>>
       THEN /\ resp' = [op |-> "checkout", code |-> "empty_cart"]
            /\ UNCHANGED <<co, nextOrderId>>
       ELSE IF ~auth
       THEN /\ resp' = [op |-> "checkout", code |-> "login_required"]
            /\ UNCHANGED <<co, nextOrderId>>
       ELSE IF ~fields \/ method = None
       THEN /\ resp' = [op |-> "checkout", code |-> "missing_fields"]
            /\ UNCHANGED <<co, nextOrderId>>
       ELSE /\ co' = [co EXCEPT ![c] =
                        [pc |-> "items",
                         lines |-> CartContents(cart[c]),
                         total |-> CartTotal(CartContents(cart[c])),
                         idx |-> 1,
                         method |-> method,
                         notes |-> notes,
                         customer_id |-> ClientUser(c),
                         order_id |-> nextOrderId,
                         pending |-> <<>>,
                         cache |-> LoadedMerch(cart[c]),
                         \* what the request found, to tell what it changed
                         stock_at_entry |-> [m \in MerchIds |-> merch[m].stock_quantity]]]
            /\ nextOrderId' = nextOrderId + 1
            /\ resp' = [op |-> "checkout", code |-> "flushed"]

StockSeenStored(r, m) == merch[m].stock_quantity

\* Merchandise.update_stock as the session sees the row: the value is the one
\* in the identity map unless a commit expired it
StockSeen(r, m) ==
    IF r.cache[m].loaded THEN r.cache[m].stock_quantity ELSE merch[m].stock_quantity

UpdateStockNotBelowZero(r, m, quantity_change) ==
    IF StockSeen(r, m) + quantity_change < 0 THEN 0
    ELSE StockSeen(r, m) + quantity_change

UpdateStock(r, m, quantity_change) == StockSeen(r, m) + quantity_change

\* checkout, lines 94-111: one pass of "for item in cart_contents"
CheckoutItem(c) ==
    /\ co[c].pc = "items"
    /\ co[c].idx <= Len(co[c].lines)
    /\ LET r == co[c]
           line == r.lines[r.idx]
           row == NewOrderItem(r.order_id, line)
       IN  IF line.type = "merchandise"
           THEN \* update_stock commits the session: the Order, the items added so far
                /\ merch' = [merch EXCEPT ![line.id].stock_quantity =
                                UpdateStock(r, line.id, -line.quantity)]
                /\ orders' = WithOrder(r)
                /\ orderItems' = orderItems \o r.pending
                /\ co' = [co EXCEPT ![c].pending = <<row>>, ![c].idx = @ + 1,
                                    ![c].cache = Expired]
           ELSE /\ co' = [co EXCEPT ![c].pending = Append(@, row), ![c].idx = @ + 1]
                /\ UNCHANGED <<merch, orders, orderItems>>
    /\ resp' = [op |-> "checkout", code |-> "item"]
    /\ UNCHANGED <<beats, cart, transactions, bookings, messages, nextOrderId, now, bk, ad, users>>

\* checkout, lines 113-131: the Transaction, the final commit, the cart
CheckoutFinish(c) ==
    /\ co[c].pc = "items"
    /\ co[c].idx > Len(co[c].lines)
    /\ LET r == co[c]
       IN  IF r.method \notin PaymentMethod
           THEN \* PaymentMethod(payment_method) raises ValueError: the request
                \* ends 500 and the session's uncommitted rows are rolled back
                /\ resp' = [op |-> "checkout", code |-> "500"]
                /\ UNCHANGED <<cart, orders, orderItems, transactions>>
           ELSE /\ orders' = WithOrder(r)
                /\ orderItems' = orderItems \o r.pending
                /\ transactions' = Append(transactions,
                                          NewTransaction(r.order_id, r.total, r.method, NoDetails))
                /\ cart' = [cart EXCEPT ![c] = <<>>]
                /\ resp' = [op |-> "checkout", code |-> "process_payment"]
    /\ co' = [co EXCEPT ![c] = Idle]
    /\ UNCHANGED <<beats, merch, bookings, messages, nextOrderId, now, bk, ad, users>>

\* ----------------------------------------------------------------- booking
Max(a, b) == IF a >= b THEN a ELSE b

TimeOverlapClosed(b, start_time, end_time) ==
    \/ (b.start_time <= start_time /\ b.end_time >= start_time)
    \/ (b.start_time <= end_time /\ b.end_time >= end_time)
    \/ (b.start_time >= start_time /\ b.end_time <= end_time)

\* the three-way time-overlap filter of book_session's conflict query
TimeOverlap(b, start_time, end_time) ==
    \/ (b.start_time <= start_time /\ b.end_time > start_time)
    \/ (b.start_time < end_time /\ b.end_time >= end_time)
    \/ (b.start_time >= start_time /\ b.end_time <= end_time)

Conflicts(producer_id, session_date, start_time, end_time) ==
    {i \in 1..Len(bookings) :
        /\ bookings[i].producer_id = producer_id
        /\ bookings[i].session_date = session_date
        /\ bookings[i].status # "cancelled"
        /\ TimeOverlap(bookings[i], start_time, end_time)}

SessionPriceNoMinimum(start_time, end_time) ==
    ((end_time - start_time) * HourlyRate) \div SlotsPerHour

\* duration_hours = max(2, duration); price = duration_hours * 50
SessionPrice(start_time, end_time) ==
    (Max(MinHours * SlotsPerHour, end_time - start_time) * HourlyRate) \div SlotsPerHour

\* artist.book_session up to the conflict query (lines 121-171)
BookCheck(c, producer_id, session_date, start_time, end_time) ==
    /\ bk[c].pc = "idle"
    /\ Role(ClientUser(c)) = "artist"
    /\ UNCHANGED <<beats, merch, cart, orders, orderItems, transactions, bookings,
                   messages, nextOrderId, now, co, ad, users>>
    /\ IF start_time >= end_time
       THEN /\ resp' = [op |-> "book_session", code |-> "bad_times"]
            /\ UNCHANGED bk
       ELSE IF ~(producer_id \in users /\ Role(producer_id) = "producer")
       THEN /\ resp' = [op |-> "book_session", code |-> "no_producer"]
            /\ UNCHANGED bk
       ELSE IF Conflicts(producer_id, session_date, start_time, end_time) # {}
       THEN /\ resp' = [op |-> "book_session", code |-> "conflict"]
            /\ UNCHANGED bk
       ELSE /\ bk' = [bk EXCEPT ![c] =
                        [pc |-> "insert", producer_id |-> producer_id,
                         session_date |-> session_date,
                         start_time |-> start_time, end_time |-> end_time]]
            /\ resp' = [op |-> "book_session", code |-> "checked"]

\* artist.book_session from the price on (lines 173-206)
BookInsert(c) ==
    /\ bk[c].pc = "insert"
    /\ LET r == bk[c]
       IN  /\ bookings' = Append(bookings,
                [session_date |-> r.session_date, start_time |-> r.start_time,
                 end_time |-> r.end_time, status |-> "requested",
                 price |-> SessionPrice(r.start_time, r.end_time), is_paid |-> FALSE,
                 notes |-> None,
                 artist_id |-> ClientUser(c), producer_id |-> r.producer_id])
           /\ messages' = Append(messages,
                Message(ClientUser(c), r.producer_id, "New Session Booking Request", None))
    /\ bk' = [bk EXCEPT ![c] = Idle]
    /\ resp' = [op |-> "book_session", code |-> "booked"]
    /\ UNCHANGED <<beats, merch, cart, orders, orderItems, transactions, nextOrderId,
                   now, co, ad, users>>

\* "Only allow cancellation if session is not already cancelled or completed"
CancellableUnlessCancelled(booking) == booking.status # "cancelled"

Cancellable(booking) == booking.status \notin {"cancelled", "completed"}

\* artist.cancel_session
CancelSession(caller, session_id) ==
    /\ UNCHANGED <<beats, merch, cart, orders, orderItems, transactions, nextOrderId,
                   now, co, bk, ad, users>>
    /\ IF Role(caller) # "artist"
       THEN /\ resp' = [op |-> "cancel_session", code |-> "access_denied"]
            /\ UNCHANGED <<bookings, messages>>
       ELSE IF session_id \notin 1..Len(bookings) \/ bookings[session_id].artist_id # caller
       THEN /\ resp' = [op |-> "cancel_session", code |-> "404"]
            /\ UNCHANGED <<bookings, messages>>
       ELSE IF ~Cancellable(bookings[session_id])
       THEN /\ resp' = [op |-> "cancel_session", code |-> "cannot_cancel"]
            /\ UNCHANGED <<bookings, messages>>
       ELSE /\ bookings' = [bookings EXCEPT ![session_id].status = "cancelled"]
            /\ messages' = Append(messages,
                    Message(caller, bookings[session_id].producer_id,
                            "Session Booking Cancelled", None))
            /\ resp' = [op |-> "cancel_session", code |-> "cancelled"]

\* producer.update_session_status
\* SessionBooking.query.filter_by(id=session_id, producer_id=current_user.id)
OwnedSessionAnyProducer(caller, session_id) ==
    session_id \in 1..Len(bookings)

OwnedSession(caller, session_id) ==
    /\ session_id \in 1..Len(bookings)
    /\ bookings[session_id].producer_id = caller

UpdateSessionStatus(caller, session_id, new_status, notes) ==
    /\ UNCHANGED <<beats, merch, cart, orders, orderItems, transactions, nextOrderId,
                   now, co, bk, ad, users>>
    /\ IF Role(caller) # "producer"
       THEN /\ resp' = [op |-> "update_session_status", code |-> "access_denied"]
            /\ UNCHANGED <<bookings, messages>>
       ELSE IF ~OwnedSession(caller, session_id)
       THEN /\ resp' = [op |-> "update_session_status", code |-> "404"]
            /\ UNCHANGED <<bookings, messages>>
       ELSE IF new_status \notin SessionStatus
       THEN /\ resp' = [op |-> "update_session_status", code |-> "invalid_status"]
            /\ UNCHANGED <<bookings, messages>>
       ELSE /\ bookings' = [bookings EXCEPT
                              ![session_id].status = new_status,
                              ![session_id].notes = IF notes # None THEN notes ELSE @]
            /\ messages' = Append(messages,
                    Message(caller, bookings[session_id].artist_id,
                            "Session Status Updated", new_status))
            /\ resp' = [op |-> "update_session_status", code |-> "updated"]

\* ---------------------------------------------------------------- payments
\* Transaction.query.filter_by(transaction_id=...).first()
FindTransactionFirstRow(transaction_id) ==
    IF transactions # <<>> THEN 1 ELSE Null

FindTransaction(transaction_id) ==
    LET rows == {i \in 1..Len(transactions) :
                    transactions[i].transaction_id = transaction_id}
    IN  IF rows # {} THEN Min(rows) ELSE Null

\* payments.pay_session (POST)
PaySession(caller, session_id, method) ==
    /\ caller # Anon
    /\ UNCHANGED <<beats, merch, cart, orders, orderItems, bookings, messages,
                   nextOrderId, now, co, bk, ad, users>>
    /\ IF session_id \notin 1..Len(bookings)
       THEN /\ resp' = [op |-> "pay_session", code |-> "404"]
            /\ UNCHANGED transactions
       ELSE IF bookings[session_id].artist_id # caller
       THEN /\ resp' = [op |-> "pay_session", code |-> "access_denied"]
            /\ UNCHANGED transactions
       ELSE IF bookings[session_id].is_paid
       THEN /\ resp' = [op |-> "pay_session", code |-> "already_paid"]
            /\ UNCHANGED transactions
       ELSE IF method = None
       THEN /\ resp' = [op |-> "pay_session", code |-> "missing_method"]
            /\ UNCHANGED transactions
       ELSE IF method \notin PaymentMethod
       THEN /\ resp' = [op |-> "pay_session", code |-> "500"]
            /\ UNCHANGED transactions
       ELSE /\ transactions' = Append(transactions,
                    NewTransaction(Null, bookings[session_id].price, method,
                        SetPaymentDetails(Details(Null, None, session_id, "session_payment"))))
            /\ resp' = [op |-> "pay_session", code |-> "process_session_payment"]

\* what either webhook writes to the transaction on 'completed'
CompleteTransactionDetailsOnly(transaction, data) ==
    [transaction EXCEPT !.payment_details = SetPaymentDetails(data)]

CompleteTransactionAddsAmount(transaction, data) ==
    [transaction EXCEPT !.status = "completed", !.amount = @ + transaction.amount,
                        !.payment_details = SetPaymentDetails(data)]

CompleteTransaction(transaction, data) ==
    [transaction EXCEPT !.status = "completed",
                        !.payment_details = SetPaymentDetails(data)]

\* what either webhook writes to the transaction on 'failed'
FailTransactionDropDetails(transaction) ==
    [transaction EXCEPT !.status = "failed", !.payment_details = NoDetails]

FailTransaction(transaction) == [transaction EXCEPT !.status = "failed"]

\* what the goods webhook writes to the order on 'completed'
MarkPaidNoStamp(order) == [order EXCEPT !.status = "paid"]

MarkPaid(order) == [order EXCEPT !.status = "paid", !.paid_at = now]

\* payments.payment_webhook; data is the JSON body
PaymentWebhook(data) ==
    /\ UNCHANGED <<beats, merch, cart, orderItems, bookings, nextOrderId, now, co, bk, ad, users>>
    /\ LET t == FindTransaction(data.transaction_id)
           req == [op |-> "payment_webhook", code |-> None]
       IN  IF data.transaction_id = Null
           THEN /\ resp' = [req EXCEPT !.code = "400"]
                /\ UNCHANGED <<orders, transactions, messages>>
           ELSE IF t = Null
           THEN /\ resp' = [req EXCEPT !.code = "404"]
                /\ UNCHANGED <<orders, transactions, messages>>
           ELSE IF data.status = "completed"
           THEN IF transactions[t].order_id \notin DOMAIN orders
                THEN \* transaction.order is None: AttributeError, the request ends
                     \* 500 and the uncommitted status change is rolled back
                     /\ resp' = [req EXCEPT !.code = "500"]
                     /\ UNCHANGED <<orders, transactions, messages>>
                ELSE /\ transactions' = [transactions EXCEPT
                                           ![t] = CompleteTransaction(@, data)]
                     /\ orders' = [orders EXCEPT
                                     ![transactions[t].order_id] = MarkPaid(@)]
                     /\ messages' = Append(messages,
                            Message(AdminId, orders[transactions[t].order_id].customer_id,
                                    "Payment Confirmed", None))
                     /\ resp' = [req EXCEPT !.code = "200"]
           ELSE IF data.status = "failed"
           THEN /\ transactions' = [transactions EXCEPT ![t] = FailTransaction(@)]
                /\ resp' = [req EXCEPT !.code = "200"]
                /\ UNCHANGED <<orders, messages>>
           ELSE /\ resp' = [req EXCEPT !.code = "400"]
                /\ UNCHANGED <<orders, transactions, messages>>

\* payments.session_payment_webhook; data is the JSON body
SessionPaymentWebhook(data) ==
    /\ UNCHANGED <<beats, merch, cart, orders, orderItems, nextOrderId, now, co, bk, ad, users>>
    /\ LET t == FindTransaction(data.transaction_id)
           session_id == GetPaymentDetails(transactions[t]).session_id
           req == [op |-> "session_payment_webhook", code |-> None]
       IN  IF data.transaction_id = Null
           THEN /\ resp' = [req EXCEPT !.code = "400"]
                /\ UNCHANGED <<bookings, transactions, messages>>
           ELSE IF t = Null
           THEN /\ resp' = [req EXCEPT !.code = "404"]
                /\ UNCHANGED <<bookings, transactions, messages>>
           ELSE IF session_id = Null
           THEN /\ resp' = [req EXCEPT !.code = "400"]
                /\ UNCHANGED <<bookings, transactions, messages>>
           ELSE IF session_id \notin 1..Len(bookings)
           THEN /\ resp' = [req EXCEPT !.code = "404"]
                /\ UNCHANGED <<bookings, transactions, messages>>
           ELSE IF data.status = "completed"
           THEN /\ transactions' = [transactions EXCEPT
                                      ![t] = CompleteTransaction(@, data)]
                /\ bookings' = [bookings EXCEPT ![session_id].is_paid = TRUE]
                /\ messages' = messages \o
                      <<Message(AdminId, bookings[session_id].artist_id,
                                "Session Payment Confirmed", None),
                        Message(AdminId, bookings[session_id].producer_id,
                                "Session Payment Received", None)>>
                /\ resp' = [req EXCEPT !.code = "200"]
           ELSE IF data.status = "failed"
           THEN /\ transactions' = [transactions EXCEPT ![t] = FailTransaction(@)]
                /\ resp' = [req EXCEPT !.code = "200"]
                /\ UNCHANGED <<bookings, messages>>
           ELSE /\ resp' = [req EXCEPT !.code = "400"]
                /\ UNCHANGED <<bookings, transactions, messages>>

\* ------------------------------------------------------------ order status
\* "Update timestamps based on status" of update_order_status
StampOrder(order, old_status) ==
    IF order.status = "paid" /\ old_status # "paid"
    THEN [order EXCEPT !.paid_at = now]
    ELSE IF order.status = "shipped" /\ old_status # "shipped"
    THEN [order EXCEPT !.shipped_at = now]
    ELSE IF order.status = "delivered" /\ old_status # "delivered"
    THEN [order EXCEPT !.delivered_at = now]
    ELSE order

\* "Update order": the new status, and the notes when the form has any
ApplyStatusNotCommitted(order, new_status, notes) == order

ApplyStatusKeepsDelivered(order, new_status, notes) ==
    IF order.status = "delivered" THEN order
    ELSE [order EXCEPT !.status = new_status,
                       !.notes = IF notes # None THEN notes ELSE @]

ApplyStatus(order, new_status, notes) ==
    [order EXCEPT !.status = new_status,
                  !.notes = IF notes # None THEN notes ELSE @]

\* admin.update_order_status up to its first commit (lines 170-197)
UpdateOrderStatus(caller, order_number, new_status, notes) ==
    /\ ad.pc = "idle"
    /\ LET req == [op |-> "update_order_status", code |-> None]
       IN  IF Role(caller) # "admin"
           THEN /\ resp' = [req EXCEPT !.code = "access_denied"]
                /\ UNCHANGED <<orders, ad>>
           ELSE IF order_number \notin DOMAIN orders
           THEN /\ resp' = [req EXCEPT !.code = "404"]
                /\ UNCHANGED <<orders, ad>>
           ELSE IF new_status \notin OrderStatus
           THEN /\ resp' = [req EXCEPT !.code = "invalid_status"]
                /\ UNCHANGED <<orders, ad>>
           ELSE /\ orders' = [orders EXCEPT ![order_number] =
                        StampOrder(ApplyStatus(@, new_status, notes),
                                   orders[order_number].status)]
                /\ ad' = [pc |-> "notify", caller |-> caller,
                          order_number |-> order_number, new_status |-> new_status]
                /\ resp' = [req EXCEPT !.code = "committed"]
    /\ UNCHANGED <<beats, merch, cart, orderItems, transactions, bookings, messages,
                   nextOrderId, now, co, bk, users>>

\* admin.update_order_status from "Send notification to customer" on (lines
\* 199-211); the order was expired by the commit and is read again
UpdateOrderStatusNotify ==
    /\ ad.pc = "notify"
    /\ messages' = Append(messages,
            Message(ad.caller, orders[ad.order_number].customer_id,
                    "Order Status Update", orders[ad.order_number].status))
    /\ ad' = Idle
    /\ resp' = [op |-> "update_order_status", code |-> "updated"]
    /\ UNCHANGED <<beats, merch, cart, orders, orderItems, transactions, bookings,
                   nextOrderId, now, co, bk, users>>

\* the request dies between its two commits (the worker is killed, the
\* insert of the Message fails): what was committed stays
UpdateOrderStatusFails ==
    /\ ad.pc = "notify"
    /\ ad' = Idle
    /\ resp' = [op |-> "update_order_status", code |-> "500"]
    /\ UNCHANGED <<beats, merch, cart, orders, orderItems, transactions, bookings,
                   messages, nextOrderId, now, co, bk, users>>

\* ------------------------------------------------------------ delete_user
\* Message.query.filter((sender_id == user_id) | (recipient_id == user_id))
MessageOf(user_id, message) ==
    message.sender_id = user_id \/ message.recipient_id = user_id

\* SessionBooking.query.filter((artist_id == user_id) | (producer_id == user_id))
BookingOf(user_id, booking) ==
    booking.artist_id = user_id \/ booking.producer_id = user_id

\* Order.query.filter_by(customer_id=user_id).update({'customer_id': None})
DetachOrdersDeleting(user_id) ==
    [o \in {i \in DOMAIN orders : orders[i].customer_id # user_id} |-> orders[o]]

DetachOrders(user_id) ==
    [o \in DOMAIN orders |->
        IF orders[o].customer_id = user_id
        THEN [orders[o] EXCEPT !.customer_id = Null]
        ELSE orders[o]]

\* admin.delete_user; the rows that stay keep their order in their tables
DeleteUser(caller, user_id) ==
    /\ LET req == [op |-> "delete_user", code |-> None]
       IN  IF ~(caller \in users /\ Role(caller) = "admin")
           THEN /\ resp' = [req EXCEPT !.code = "access_denied"]
                /\ UNCHANGED <<messages, orders, bookings, users>>
           ELSE IF user_id \notin users
           THEN /\ resp' = [req EXCEPT !.code = "404"]
                /\ UNCHANGED <<messages, orders, bookings, users>>
           ELSE IF user_id = caller
           THEN /\ resp' = [req EXCEPT !.code = "own_account"]
                /\ UNCHANGED <<messages, orders, bookings, users>>
           ELSE IF Role(user_id) = "admin"
           THEN /\ resp' = [req EXCEPT !.code = "admin_account"]
                /\ UNCHANGED <<messages, orders, bookings, users>>
           ELSE /\ messages' = SelectSeq(messages, LAMBDA m : ~MessageOf(user_id, m))
                /\ orders' = DetachOrders(user_id)
                /\ bookings' = SelectSeq(bookings, LAMBDA b : ~BookingOf(user_id, b))
                /\ users' = users \ {user_id}
                /\ resp' = [req EXCEPT !.code = "deleted"]
    /\ UNCHANGED <<beats, merch, cart, orderItems, transactions, nextOrderId, now,
                   co, bk, ad>>

\* ---------------------------------------------------------- specifications
\* the JSON bodies a payment processor (or anyone) can post to a webhook:
\* any status with a transaction_id that is missing, known or unknown, and a
\* 'completed' body that carries a session_id key of its own
WebhookBodies ==
    {Details(t, st, Null, None) :
        t \in {Null} \cup (1..(Len(transactions) + 1)),
        st \in {"completed", "failed", "refunded"}}
    \cup
    {Details(t, "completed", sid, None) :
        t \in 1..Len(transactions), sid \in 1..Len(bookings)}

\* The payment webhooks, one request at a time: a client buys a beat, an
\* artist books and pays a session, and either webhook is called with any body.
WithinHook ==
    /\ Len(messages) <= MaxMessages
    /\ Len(transactions) <= MaxTransactions
    /\ nextOrderId <= MaxOrders + 1
    /\ Len(bookings) <= MaxPaidBookings

NextHook ==
    \/ AddToCart(1, 1, "beat", 1) /\ cart[1] = <<>> /\ WithinHook'
    \/ CheckoutBegin(1, TRUE, TRUE, "paypal", None) /\ WithinHook'
    \/ CheckoutItem(1)
    \/ CheckoutFinish(1)
    \/ Quiescent /\ BookCheck(1, ProducerP, 1, 0, 2) /\ WithinHook'
    \/ BookInsert(1) /\ WithinHook'
    \/ Quiescent /\ (\E s \in 1..MaxPaidBookings : PaySession(ArtistA, s, "mpesa")) /\ WithinHook'
    \/ Quiescent /\ (\E d \in WebhookBodies : PaymentWebhook(d)) /\ WithinHook'
    \/ Quiescent /\ (\E d \in WebhookBodies : SessionPaymentWebhook(d)) /\ WithinHook'

\* the catalog prices play no part here: one price each
InitFixed == InitStore(1, 1)

SpecHook == InitFixed /\ [][NextHook]_vars

\* The order lifecycle, one request at a time: a client buys a beat, the
\* goods webhook is called with any body, the admin (or somebody else) posts
\* any status, and time passes.
WithinOrder ==
    /\ Len(messages) + (IF ad.pc = "notify" THEN 1 ELSE 0) <= MaxMessages
    /\ Len(transactions) <= MaxTransactions
    /\ nextOrderId <= MaxOrders + 1

NextOrder ==
    \/ Tick
    \/ AddToCart(1, 1, "beat", 1) /\ cart[1] = <<>> /\ WithinOrder'
    \/ CheckoutBegin(1, TRUE, TRUE, "paypal", None) /\ WithinOrder'
    \/ CheckoutItem(1)
    \/ CheckoutFinish(1)
    \/ Quiescent /\ (\E d \in WebhookBodies : PaymentWebhook(d)) /\ WithinOrder'
    \/ /\ Quiescent
       /\ \E caller \in {AdminId, ArtistA}, o \in 1..(MaxOrders + 1),
             st \in OrderStatus \cup {"refunded"}, notes \in {None, "note"} :
                UpdateOrderStatus(caller, o, st, notes)
       /\ WithinOrder'
    \/ UpdateOrderStatusNotify

SpecOrder == InitFixed /\ [][NextOrder]_vars


\* Session bookings, one request at a time: an artist books one of two
\* overlapping slots, artists and the producer cancel, the producer posts any
\* status.
WithinBook ==
    /\ Len(messages) <= MaxMessages
    /\ Len(bookings) <= MaxBookings

BookSlots == {<<0, 2>>, <<1, 3>>}

NextBook ==
    \/ (\E slot \in BookSlots : BookCheck(1, ProducerP, 1, slot[1], slot[2])) /\ WithinBook'
    \/ BookInsert(1) /\ WithinBook'
    \/ /\ Quiescent
       /\ \E caller \in {ArtistA, ArtistB, ProducerP}, sid \in 1..(MaxBookings + 1) :
             CancelSession(caller, sid)
       /\ WithinBook'
    \/ /\ Quiescent
       /\ \E sid \in 1..MaxBookings, st \in SessionStatus :
             UpdateSessionStatus(ProducerP, sid, st, None)
       /\ WithinBook'

SpecBook == InitFixed /\ [][NextBook]_vars

\* The producers' side of a booking: artists book sessions with either
\* producer, and any logged-in user posts the status form of any booking.
SessionForms ==
    {f \in [caller : {ProducerP, ProducerQ, ArtistA}, session_id : 1..(MaxBookings + 1),
            status : SessionStatus \cup {"archived"}, notes : {None, "note"}] :
        f.caller # ProducerP => (f.session_id = 1 /\ f.notes = "note")}

PostsSession(f) == UpdateSessionStatus(f.caller, f.session_id, f.status, f.notes)

NextSession ==
    \/ /\ \E producer_id \in {ProducerP, ProducerQ} :
             BookCheck(1, producer_id, 1, 0, 2)
       /\ WithinBook'
    \/ BookInsert(1) /\ WithinBook'
    \/ /\ Quiescent
       /\ \E f \in SessionForms : PostsSession(f)
       /\ WithinBook'

SpecSession == InitFixed /\ [][NextSession]_vars

\* Two book_session requests in flight at once, their conflict queries and
\* inserts interleaved in any order; artists cancel their bookings.
WithinRace ==
    /\ Len(messages) <= MaxMessages
    /\ Len(bookings) + Cardinality({c \in Clients : bk[c].pc = "insert"}) <= MaxBookings

NextRace ==
    \/ /\ \E c \in Clients, start_time \in 0..MaxTime, end_time \in 0..MaxTime :
             BookCheck(c, ProducerP, 1, start_time, end_time)
       /\ WithinRace'
    \/ (\E c \in Clients : BookInsert(c)) /\ WithinRace'
    \/ (\E c \in Clients, sid \in 1..MaxBookings : CancelSession(ClientUser(c), sid))
          /\ WithinRace'

SpecRace == InitFixed /\ [][NextRace]_vars


\* The shop, one request at a time: a client fills the cart with beats and
\* merchandise, the producer changes the price of the beat or unpublishes it,
\* and a logged-in client posts a complete checkout form.
WithinShop ==
    /\ nextOrderId <= MaxOrders + 1
    /\ \A i \in 1..Len(cart[1]) : cart[1][i].quantity <= MaxQty

NextShop ==
    \/ /\ \E item_type \in {"beat", "merchandise"}, quantity \in 1..MaxQty :
             AddToCart(1, 1, item_type, quantity)
       /\ WithinShop'
    \/ /\ Quiescent
       /\ \E price \in 1..MaxPrice, published \in BOOLEAN : EditBeat(1, price, published)
    \/ CheckoutBegin(1, TRUE, TRUE, "paypal", None) /\ WithinShop'
    \/ CheckoutItem(1)
    \/ CheckoutFinish(1)

\* the beat's price is whatever edit_beat makes it; the merchandise has the
\* largest price throughout
InitShop == InitStore(1, MaxPrice)

SpecShop == InitShop /\ [][NextShop]_vars

\* The checkout form, one request at a time: anybody posts it, logged in or
\* not, complete or not, with a valid payment method, another one or none.
CheckoutMethods == {"paypal", "bitcoin", None}

NextCheckout ==
    \/ /\ \E item_type \in {"beat", "merchandise"}, quantity \in 1..MaxQty :
             AddToCart(1, 1, item_type, quantity)
       /\ WithinShop'
    \/ /\ \E auth \in BOOLEAN, fields \in BOOLEAN, method \in CheckoutMethods :
             CheckoutBegin(1, auth, fields, method, None)
       /\ WithinShop'
    \/ CheckoutItem(1)
    \/ CheckoutFinish(1)

SpecCheckout == InitFixed /\ [][NextCheckout]_vars


\* The admin's order page, one request at a time, once client 1 has bought the
\* beat: the admin (or somebody else) posts any status for the order or for
\* an order number that does not exist, with notes or without, and a request
\* may die between its two commits.  The clock stands still.
InitPlaced ==
    /\ beats = [b \in BeatIds |-> [exists |-> TRUE, price |-> 1, is_published |-> TRUE]]
    /\ merch = [m \in MerchIds |-> [price |-> 1, is_published |-> TRUE,
                                    stock_quantity |-> InitStock]]
    /\ cart = [c \in Clients |-> <<>>]
    /\ orders = [i \in {1} |-> NewOrder(ClientUser(1), 1, None)]
    /\ orderItems = <<NewOrderItem(1, [id |-> 1, type |-> "beat", price |-> 1,
                                       quantity |-> 1])>>
    /\ transactions = <<[transaction_id |-> 1, order_id |-> 1, amount |-> 1,
                         currency |-> "USD", status |-> "pending",
                         payment_method |-> "paypal", payment_details |-> NoDetails]>>
    /\ bookings = <<>>
    /\ messages = <<>>
    /\ nextOrderId = 2
    /\ now = 1
    /\ co = [c \in Clients |-> Idle]
    /\ bk = [c \in Clients |-> Idle]
    /\ ad = Idle
    /\ users = Users
    /\ resp = [op |-> "checkout", code |-> "process_payment"]

WithinAdmin == Len(messages) + (IF ad.pc = "notify" THEN 1 ELSE 0) <= MaxMessages

\* the forms posted to update_order_status: the admin posts any status for
\* the order or for an order number that does not exist, with notes or
\* without; an artist and a visitor who is not logged in post any status
\* for the order, with notes
StatusForms ==
    [caller : {AdminId}, order_number : {1, 2},
     new_status : OrderStatus \cup {"refunded"}, notes : {None, "note"}]
    \cup
    [caller : {ArtistA, Anon}, order_number : {1},
     new_status : OrderStatus \cup {"refunded"}, notes : {"note"}]

Posts(f) == UpdateOrderStatus(f.caller, f.order_number, f.new_status, f.notes)

NextAdmin ==
    \/ (\E f \in StatusForms : Posts(f)) /\ WithinAdmin'
    \/ UpdateOrderStatusNotify
    \/ UpdateOrderStatusFails

SpecAdmin == InitPlaced /\ [][NextAdmin]_vars

\* The catalog under the cart, one request at a time: the merchandise is
\* published or not, the producer unpublishes, republishes and deletes the
\* beat while it is in a cart, and the client checks out.
InitCatalog ==
    \E published \in BOOLEAN :
        /\ beats = [b \in BeatIds |-> [exists |-> TRUE, price |-> 1, is_published |-> TRUE]]
        /\ merch = [m \in MerchIds |-> [price |-> 1, is_published |-> published,
                                        stock_quantity |-> InitStock]]
        /\ cart = [c \in Clients |-> <<>>]
        /\ orders = [i \in {} |-> Null]
        /\ orderItems = <<>>
        /\ transactions = <<>>
        /\ bookings = <<>>
        /\ messages = <<>>
        /\ nextOrderId = 1
        /\ now = 1
        /\ co = [c \in Clients |-> Idle]
        /\ bk = [c \in Clients |-> Idle]
        /\ ad = Idle
        /\ users = Users
        /\ resp = [op |-> "none", code |-> None]

NextCatalog ==
    \/ /\ \E item_type \in {"beat", "merchandise"}, quantity \in 1..MaxQty :
             AddToCart(1, 1, item_type, quantity)
       /\ WithinShop'
    \/ Quiescent /\ (\E published \in BOOLEAN : EditBeat(1, 1, published))
    \/ Quiescent /\ (\E caller \in {ProducerP, ArtistA} : DeleteBeat(caller, 1))
    \/ CheckoutBegin(1, TRUE, TRUE, "mpesa", None) /\ WithinShop'
    \/ CheckoutItem(1)
    \/ CheckoutFinish(1)

SpecCatalog == InitCatalog /\ [][NextCatalog]_vars

\* The life of a priced booking, one request at a time: an artist books a
\* session from the start of the day to any later time, the producer posts
\* any status, the artist cancels, pays, and the session webhook is called.
WithinPrice ==
    /\ Len(bookings) <= MaxPaidBookings
    /\ Len(messages) <= MaxMessages
    /\ Len(transactions) <= MaxPaidBookings

NextPrice ==
    \/ Quiescent /\ (\E end_time \in 1..MaxSlots : BookCheck(1, ProducerP, 1, 0, end_time))
    \/ BookInsert(1) /\ WithinPrice'
    \/ /\ Quiescent
       /\ \E sid \in 1..Len(bookings), st \in SessionStatus :
             UpdateSessionStatus(ProducerP, sid, st, None)
       /\ WithinPrice'
    \/ Quiescent /\ (\E sid \in 1..Len(bookings) : CancelSession(ArtistA, sid))
          /\ WithinPrice'
    \/ Quiescent /\ (\E sid \in 1..Len(bookings) : PaySession(ArtistA, sid, "mpesa"))
          /\ WithinPrice'
    \/ /\ Quiescent
       /\ \E t \in 1..Len(transactions), st \in {"completed", "failed"} :
             SessionPaymentWebhook(Details(t, st, Null, None))
       /\ WithinPrice'

SpecPrice == InitFixed /\ [][NextPrice]_vars

\* Two buyers of the same merchandise: each fills an empty cart while the
\* stock suffices and checks out.
WithinStock ==
    /\ nextOrderId <= MaxTransactions + 1
    /\ \A c \in Clients : \A i \in 1..Len(cart[c]) : cart[c][i].quantity <= MaxQty

FillCart(c) ==
    /\ cart[c] = <<>>
    /\ \E quantity \in 1..MaxQty : AddToCart(c, 1, "merchandise", quantity)

\* their checkouts run at once, their steps interleaved in any order
NextStock ==
    \/ (\E c \in Clients : FillCart(c)) /\ WithinStock'
    \/ (\E c \in Clients : CheckoutBegin(c, TRUE, TRUE, "paypal", None)) /\ WithinStock'
    \/ \E c \in Clients : CheckoutItem(c)
    \/ \E c \in Clients : CheckoutFinish(c)

SpecStock == InitFixed /\ [][NextStock]_vars

\* their checkouts run one after the other
NextBuyers ==
    \/ (\E c \in Clients : FillCart(c)) /\ WithinStock'
    \/ /\ Quiescent
       /\ \E c \in Clients : CheckoutBegin(c, TRUE, TRUE, "paypal", None)
       /\ WithinStock'
    \/ \E c \in Clients : CheckoutItem(c)
    \/ \E c \in Clients : CheckoutFinish(c)

SpecBuyers == InitFixed /\ [][NextBuyers]_vars

\* ------------------------------------------------------------------ claims
TransactionIds == {transactions[i].transaction_id : i \in 1..Len(transactions)}

IsGoods(t) == transactions[t].order_id \in DOMAIN orders

NewMessages == SubSeq(messages', Len(messages) + 1, Len(messages'))

\* C1: paid_at, shipped_at and delivered_at are each written at most once:
\* once non-null, a later request does not overwrite the value.
C1_TimestampsWrittenOnce ==
    [][\A o \in DOMAIN orders :
          /\ orders[o].paid_at # Null => orders'[o].paid_at = orders[o].paid_at
          /\ orders[o].shipped_at # Null => orders'[o].shipped_at = orders[o].shipped_at
          /\ orders[o].delivered_at # Null
                => orders'[o].delivered_at = orders[o].delivered_at
      ]_vars

Intersect(s1, e1, s2, e2) == s1 < e2 /\ s2 < e1

\* C3: of two book_session requests for the same producer and date over
\* intersecting intervals only one results in a booking, however their
\* conflict queries and inserts interleave: no request inserts a booking
\* over a non-cancelled booking that is already there.
C3_OneOfTwoOverlapping ==
    [][\A c \in Clients :
          (BookInsert(c))
          => ~\E i \in 1..Len(bookings) :
                /\ bookings[i].producer_id = bk[c].producer_id
                /\ bookings[i].session_date = bk[c].session_date
                /\ bookings[i].status # "cancelled"
                /\ Intersect(bookings[i].start_time, bookings[i].end_time,
                             bk[c].start_time, bk[c].end_time)
      ]_vars

\* C4: cancel_session by the owning artist leaves a COMPLETED or CANCELLED
\* booking and the messages as they are; on a REQUESTED or CONFIRMED booking
\* it sets CANCELLED and creates exactly one Message, to the producer.
C4_CancelSession ==
    [][\A caller \in Users, sid \in 1..Len(bookings) :
          (CancelSession(caller, sid) /\ Role(caller) = "artist"
           /\ bookings[sid].artist_id = caller)
          => IF bookings[sid].status \in {"completed", "cancelled"}
             THEN bookings' = bookings /\ messages' = messages
             ELSE /\ bookings[sid].status \in {"requested", "confirmed"}
                  /\ bookings' = [bookings EXCEPT ![sid].status = "cancelled"]
                  /\ Len(messages') = Len(messages) + 1
                  /\ NewMessages[1].recipient_id = bookings[sid].producer_id
                  /\ NewMessages[1].sender_id = caller
      ]_vars

\* the owner cancelled a booking and was later refused on a COMPLETED one
C4_Witness ==
    /\ resp = [op |-> "cancel_session", code |-> "cannot_cancel"]
    /\ \E sid \in 1..Len(bookings) : bookings[sid].status = "completed"
    /\ \E i \in 1..Len(messages) : messages[i].subject = "Session Booking Cancelled"

\* the step is payment_webhook, resp. session_payment_webhook, called with d
IsGoodsHook(d) == resp'.op = "payment_webhook" /\ PaymentWebhook(d)
IsSessionHook(d) == resp'.op = "session_payment_webhook" /\ SessionPaymentWebhook(d)
IsHook(d) == IsGoodsHook(d) \/ IsSessionHook(d)

\* C5: a 'completed' goods webhook for an existing transaction linked to an
\* order sets the transaction COMPLETED, the order PAID with paid_at set,
\* creates exactly one Message to the order's customer and answers 200.
C5_GoodsCompleted ==
    [][\A d \in WebhookBodies :
          (/\ d.status = "completed"
           /\ d.transaction_id \in TransactionIds
           /\ IsGoods(d.transaction_id)
           /\ IsGoodsHook(d))
          => LET t == d.transaction_id
                 o == transactions[t].order_id
             IN  /\ transactions'[t].status = "completed"
                 /\ orders'[o].status = "paid"
                 /\ orders'[o].paid_at # Null
                 /\ orders'[o].paid_at = now
                 /\ Len(messages') = Len(messages) + 1
                 /\ NewMessages[1].recipient_id = orders[o].customer_id
                 /\ resp' = [op |-> "payment_webhook", code |-> "200"]
      ]_vars

C5_Witness ==
    /\ resp = [op |-> "payment_webhook", code |-> "200"]
    /\ \E t \in 1..Len(transactions) :
          /\ transactions[t].status = "completed"
          /\ IsGoods(t)
          /\ orders[transactions[t].order_id].status = "paid"
          /\ orders[transactions[t].order_id].paid_at # Null
    /\ \E i \in 1..Len(messages) : messages[i].subject = "Payment Confirmed"

\* what C6 promises of a step that delivers body d
SessionCompletedEffect(d) ==
    LET t == d.transaction_id
        sid == GetPaymentDetails(transactions[t]).session_id
    IN  /\ transactions'[t].status = "completed"
        /\ bookings'[sid].is_paid
        /\ orders' = orders
        /\ Len(messages') = Len(messages) + 2
        /\ NewMessages[1].recipient_id = bookings[sid].artist_id
        /\ NewMessages[2].recipient_id = bookings[sid].producer_id

CarriesSession(d) ==
    /\ d.status = "completed"
    /\ d.transaction_id \in TransactionIds
    /\ GetPaymentDetails(transactions[d.transaction_id]).session_id \in 1..Len(bookings)

C7_ReplayKeepsCore ==
    [][\A d \in WebhookBodies :
          (/\ d.status \in {"completed", "failed"}
           /\ d.transaction_id \in TransactionIds
           /\ transactions[d.transaction_id].status = d.status
           /\ IsHook(d))
          => LET t == d.transaction_id
             IN  /\ Len(transactions') = Len(transactions)
                 /\ transactions'[t].amount = transactions[t].amount
                 /\ transactions'[t].currency = transactions[t].currency
                 /\ transactions'[t].payment_method = transactions[t].payment_method
                 /\ transactions'[t].status = transactions[t].status
                 /\ transactions'[t].transaction_id = transactions[t].transaction_id
                 /\ transactions'[t].order_id = transactions[t].order_id
      ]_vars

\* a 'completed' goods webhook was delivered twice
C7_Witness ==
    /\ resp = [op |-> "payment_webhook", code |-> "200"]
    /\ \E i, j \in 1..Len(messages) :
          /\ i < j
          /\ messages[i].subject = "Payment Confirmed"
          /\ messages[j].subject = "Payment Confirmed"
    /\ Len(transactions) = 1

\* the deliveries of body d that get past the lookups of their handler
Accepted(d) ==
    /\ d.transaction_id \in TransactionIds
    /\ \/ IsGoodsHook(d)
       \/ /\ GetPaymentDetails(transactions[d.transaction_id]).session_id
                \in 1..Len(bookings)
          /\ IsSessionHook(d)

\* C8: a 'failed' webhook sets the transaction FAILED and changes nothing
\* else: no order, no booking, no payment_details, no Message.
C8_FailedOnlyStatus ==
    [][\A d \in WebhookBodies :
          (d.status = "failed" /\ Accepted(d))
          => /\ transactions' =
                   [transactions EXCEPT ![d.transaction_id].status = "failed"]
             /\ UNCHANGED <<orders, orderItems, bookings, messages>>
             /\ resp'.code = "200"
      ]_vars

\* a 'failed' webhook arrived for a transaction that had stored details
C8_Witness ==
    /\ resp.code = "200"
    /\ resp.op \in {"payment_webhook", "session_payment_webhook"}
    /\ \E t \in 1..Len(transactions) :
          /\ transactions[t].status = "failed"
          /\ transactions[t].payment_details # NoDetails

\* C9: a delivery with no transaction_id (400), with one that resolves to no
\* Transaction (404), or with a status other than 'completed'/'failed' (400)
\* is rejected and leaves every Transaction, Order, SessionBooking and Message
\* as it was.
C9_RejectedNoChange ==
    [][\A d \in WebhookBodies :
          /\ (d.transaction_id = Null /\ IsHook(d))
                => (resp'.code = "400" /\ UNCHANGED storeVars)
          /\ (d.transaction_id # Null /\ d.transaction_id \notin TransactionIds
              /\ IsHook(d))
                => (resp'.code = "404" /\ UNCHANGED storeVars)
          /\ (d.transaction_id \in TransactionIds
              /\ d.status \notin {"completed", "failed"} /\ IsHook(d))
                => (resp'.code \in {"400", "404"} /\ UNCHANGED storeVars)
      ]_vars

\* a delivery was rejected while the store held transactions, orders, bookings
C9_Witness ==
    /\ resp.code \in {"400", "404"}
    /\ resp.op \in {"payment_webhook", "session_payment_webhook"}
    /\ transactions # <<>>
    /\ bookings # <<>>
    /\ DOMAIN orders # {}
    /\ messages # <<>>

\* the catalog price of a cart line now, 0 for a line that checkout drops
\* (a beat that is gone or not published, merchandise that is not published)
LivePrice(item) ==
    IF item.type = "beat" /\ beats[item.id].exists /\ beats[item.id].is_published
    THEN beats[item.id].price
    ELSE IF item.type = "merchandise" /\ merch[item.id].is_published
    THEN merch[item.id].price
    ELSE 0

RECURSIVE LiveTotal(_)
LiveTotal(items) ==
    IF items = <<>> THEN 0
    ELSE LivePrice(Head(items)) * Head(items).quantity + LiveTotal(Tail(items))

RECURSIVE ItemsTotal(_, _)
ItemsTotal(items, oid) ==
    IF items = <<>> THEN 0
    ELSE (IF Head(items).order_id = oid THEN Head(items).price * Head(items).quantity ELSE 0)
         + ItemsTotal(Tail(items), oid)

\* the step that ends a checkout of client c with the redirect to the payment
CheckoutSucceeds(c) ==
    /\ co[c].pc = "items"
    /\ resp'.op = "checkout"
    /\ resp'.code = "process_payment"
    /\ CheckoutFinish(c)

\* C2: a successful checkout creates an Order whose total_amount is the sum,
\* over the cart lines, of the catalog price at checkout times the quantity;
\* the Transaction's amount is the same value, and so is the sum of price
\* times quantity over the OrderItems created.
C2_CheckoutTotal ==
    [][\A c \in Clients :
          CheckoutSucceeds(c)
          => LET oid == co[c].order_id
                 total == LiveTotal(cart[c])
             IN  /\ oid \in DOMAIN orders'
                 /\ orders'[oid].total_amount = total
                 /\ Len(transactions') = Len(transactions) + 1
                 /\ transactions'[Len(transactions')].order_id = oid
                 /\ transactions'[Len(transactions')].amount = total
                 /\ ItemsTotal(orderItems', oid) = total
      ]_vars

\* an order of two lines, one of them of quantity two at a price above one,
\* has been placed
C2_Witness ==
    /\ resp = [op |-> "checkout", code |-> "process_payment"]
    /\ \E o \in DOMAIN orders :
          /\ orders[o].total_amount > 2
          /\ Cardinality({i \in 1..Len(orderItems) : orderItems[i].order_id = o}) = 2
          /\ \E i \in 1..Len(orderItems) :
                /\ orderItems[i].order_id = o
                /\ orderItems[i].quantity = 2
                /\ orderItems[i].price = 2

\* the step that ends a checkout request of client c in a validation failure
CheckoutRejected(c) ==
    /\ resp'.op = "checkout"
    /\ resp'.code \in {"login_required", "missing_fields", "500"}
    /\ co'[c].pc = "idle"
    /\ \/ CheckoutFinish(c)
       \/ \E auth \in BOOLEAN, fields \in BOOLEAN, method \in CheckoutMethods :
             CheckoutBegin(c, auth, fields, method, None)

\* C10: a checkout POST that fails validation (no login, a missing field or
\* payment method, a payment method that is not a valid one) has created no
\* Order, OrderItem or Transaction, has left every stock_quantity and the
\* cart as they were; and the cart is emptied only once the order, its items
\* and its transaction are persisted.
C10_RejectedCheckoutNoEffect ==
    [][\A c \in Clients :
          /\ (CheckoutRejected(c) /\ co[c].pc = "idle") => UNCHANGED <<storeVars, merch, cart>>
          /\ (CheckoutRejected(c) /\ co[c].pc = "items")
                => /\ co[c].order_id \notin DOMAIN orders'
                   /\ \A i \in 1..Len(orderItems') : orderItems'[i].order_id # co[c].order_id
                   /\ \A i \in 1..Len(transactions') :
                         transactions'[i].order_id # co[c].order_id
                   /\ \A m \in MerchIds :
                         merch'[m].stock_quantity = co[c].stock_at_entry[m]
                   /\ cart'[c] = cart[c]
          /\ (co[c].pc = "items" /\ cart[c] # <<>> /\ cart'[c] = <<>>)
                => /\ co[c].order_id \in DOMAIN orders'
                   /\ \E i \in 1..Len(transactions') :
                         transactions'[i].order_id = co[c].order_id
                   /\ Len(orderItems') = Len(orderItems) + Len(co[c].pending)
      ]_vars

FiveStatuses == {"pending", "paid", "shipped", "delivered", "cancelled"}

\* the forms that update_order_status has to accept, and those it has to refuse
AcceptedForms ==
    {f \in StatusForms : /\ f.new_status \in FiveStatuses
                         /\ f.caller = AdminId
                         /\ f.order_number \in DOMAIN orders}

RefusedForms ==
    {f \in StatusForms : f.new_status \notin FiveStatuses \/ f.caller # AdminId}

\* C12: update_order_status with a status that is not one of the five
\* OrderStatus values, or by a caller who is not the admin, changes nothing:
\* the orders (status, notes, timestamps) stay as they are and no Message is
\* created, now or later in the request.
C12_InvalidStatusNoChange ==
    [][(ad.pc = "idle" /\ resp'.op = "update_order_status")
          => \A f \in RefusedForms :
                Posts(f) => (UNCHANGED <<orders, messages>> /\ ad' = Idle)
      ]_vars

\* an invalid status was refused for an order that had been shipped with notes
C12_Witness ==
    /\ resp = [op |-> "update_order_status", code |-> "invalid_status"]
    /\ orders[1].status = "shipped"
    /\ orders[1].shipped_at # Null
    /\ orders[1].notes = "note"
    /\ messages # <<>>

\* C13: every accepted update_order_status call creates exactly one Message,
\* addressed to the order's customer and reporting the new status, also when
\* the target status is the current one: the step that commits the status
\* creates none and hands over to the step that creates the one.
C13_OneMessagePerUpdate ==
    [][/\ \A f \in AcceptedForms :
            (ad.pc = "idle" /\ Posts(f))
            => /\ messages' = messages
               /\ ad'.pc = "notify"
               /\ ad'.order_number = f.order_number
       /\ UpdateOrderStatusNotify
            => /\ Len(messages') = Len(messages) + 1
               /\ SubSeq(messages', 1, Len(messages)) = messages
               /\ messages'[Len(messages')].recipient_id
                     = orders[ad.order_number].customer_id
               /\ messages'[Len(messages')].sender_id = AdminId
               /\ messages'[Len(messages')].subject = "Order Status Update"
               /\ messages'[Len(messages')].about = ad.new_status
               /\ ad' = Idle
      ]_vars

\* two calls in a row with the same target status: the second changed
\* nothing of the order and was reported all the same
C13_Witness ==
    /\ resp = [op |-> "update_order_status", code |-> "updated"]
    /\ Len(messages) = 2
    /\ messages[1].about = "paid"
    /\ messages[2].about = "paid"
    /\ messages[2].recipient_id = orders[1].customer_id
    /\ orders[1].status = "paid"

\* C19: update_order_status has no transition table: whatever the current
\* status, an admin call with a valid target leaves the order in the target
\* status; notes replace order.notes when supplied and are kept when not.
C19_AnyTransition ==
    [][\A f \in AcceptedForms :
          (ad.pc = "idle" /\ Posts(f))
          => /\ orders'[f.order_number].status = f.new_status
             /\ orders'[f.order_number].notes
                   = (IF f.notes # None THEN f.notes ELSE orders[f.order_number].notes)
      ]_vars

\* a delivered order with notes was moved back to PENDING by a call without notes
C19_Witness ==
    /\ resp = [op |-> "update_order_status", code |-> "committed"]
    /\ orders[1].status = "pending"
    /\ orders[1].delivered_at # Null
    /\ orders[1].notes = "note"
    /\ ad.pc = "notify"

\* C20: update_order_status commits the status before the Message: the step
\* that commits the status creates no Message; the Message is created while
\* the requested status is the persisted one; a request that dies between
\* the two commits leaves the status persisted and no Message.
C20_StatusBeforeMessage ==
    [][/\ (ad.pc = "idle" /\ ad'.pc = "notify")
            => /\ messages' = messages
               /\ orders'[ad'.order_number].status = ad'.new_status
       /\ (ad.pc = "notify" /\ messages' # messages)
            => /\ orders[ad.order_number].status = ad.new_status
               /\ orders' = orders
               /\ messages'[Len(messages')].about = orders[ad.order_number].status
       /\ (ad.pc = "notify" /\ resp'.code = "500")
            => /\ orders[ad.order_number].status = ad.new_status
               /\ UNCHANGED <<orders, messages>>
      ]_vars

\* a request died after its first commit: the order is SHIPPED, stamped, and
\* nobody was told
C20_Witness ==
    /\ resp = [op |-> "update_order_status", code |-> "500"]
    /\ orders[1].status = "shipped"
    /\ orders[1].shipped_at # Null
    /\ messages = <<>>

\* a cart line whose item is in the catalog and published
Resolves(item) ==
    \/ item.type = "beat" /\ beats[item.id].exists /\ beats[item.id].is_published
    \/ item.type = "merchandise" /\ merch[item.id].is_published

\* the cart lines that resolve, in cart order
RECURSIVE ResolvedLines(_)
ResolvedLines(items) ==
    IF items = <<>> THEN <<>>
    ELSE (IF Resolves(Head(items)) THEN <<Head(items)>> ELSE <<>>)
         \o ResolvedLines(Tail(items))

\* the rows of a table (a sequence) that belong to order oid, in order
RECURSIVE RowsOf(_, _)
RowsOf(rows, oid) ==
    IF rows = <<>> THEN <<>>
    ELSE (IF Head(rows).order_id = oid THEN <<Head(rows)>> ELSE <<>>)
         \o RowsOf(Tail(rows), oid)

\* C11: a successful checkout of a non-empty cart by a logged-in caller
\* creates exactly one Order, PENDING and owned by the caller, one OrderItem
\* per resolved cart line, exactly one Transaction, PENDING, linked to the
\* Order and of the order's total, and leaves the cart empty.
C11_CheckoutCreates ==
    [][\A c \in Clients :
          /\ (co[c].pc = "idle" /\ co'[c].pc = "items")
                => /\ co'[c].order_id \notin DOMAIN orders'
                   /\ RowsOf(orderItems', co'[c].order_id) = <<>>
                   /\ RowsOf(transactions', co'[c].order_id) = <<>>
          /\ CheckoutSucceeds(c)
                => LET oid == co[c].order_id
                       lines == ResolvedLines(cart[c])
                       items == RowsOf(orderItems', oid)
                       paid == RowsOf(transactions', oid)
                   IN  /\ cart[c] # <<>>
                       /\ DOMAIN orders' = DOMAIN orders \cup {oid}
                       /\ \A o \in DOMAIN orders \ {oid} : orders'[o] = orders[o]
                       /\ orders'[oid].status = "pending"
                       /\ orders'[oid].customer_id = ClientUser(c)
                       /\ Len(items) = Len(lines)
                       /\ \A i \in 1..Len(lines) :
                             /\ items[i].item_type = lines[i].type
                             /\ items[i].quantity = lines[i].quantity
                             /\ (IF lines[i].type = "beat" THEN items[i].beat_id
                                 ELSE items[i].merchandise_id) = lines[i].id
                       /\ Len(paid) = 1
                       /\ paid[1].status = "pending"
                       /\ paid[1].amount = orders'[oid].total_amount
                       /\ Len(transactions') = Len(transactions) + 1
                       /\ cart'[c] = <<>>
      ]_vars

\* a cart of a beat and a merchandise line was checked out: one pending
\* order, its two items, its pending transaction, and an empty cart
C11_Witness ==
    /\ resp = [op |-> "checkout", code |-> "process_payment"]
    /\ cart[1] = <<>>
    /\ 1 \in DOMAIN orders
    /\ orders[1].status = "pending"
    /\ Len(RowsOf(orderItems, 1)) = 2
    /\ Len(RowsOf(transactions, 1)) = 1
    /\ transactions[1].status = "pending"

\* the quantity of merchandise m in the cart lines that resolve
RECURSIVE MerchTaken(_, _)
MerchTaken(items, m) ==
    IF items = <<>> THEN 0
    ELSE (IF Head(items).type = "merchandise" /\ Head(items).id = m /\ Resolves(Head(items))
          THEN Head(items).quantity ELSE 0)
         + MerchTaken(Tail(items), m)

\* C18: checkout creates OrderItems, adds to the total and decrements stock
\* only for the cart lines whose item exists and is published; a line whose
\* item is missing or unpublished gets no OrderItem, adds nothing to the
\* total, changes no stock, and the checkout goes through all the same.
C18_DroppedLines ==
    [][\A c \in Clients :
          /\ (co[c].pc = "items" /\ co'[c].pc = "idle")
                => resp' = [op |-> "checkout", code |-> "process_payment"]
          /\ CheckoutSucceeds(c)
                => LET oid == co[c].order_id
                       items == RowsOf(orderItems', oid)
                   IN  /\ \A i \in 1..Len(cart[c]) :
                             ~Resolves(cart[c][i])
                             => ~\E j \in 1..Len(items) :
                                   /\ items[j].item_type = cart[c][i].type
                                   /\ cart[c][i].id \in {items[j].beat_id,
                                                         items[j].merchandise_id}
                       /\ Len(items) = Len(ResolvedLines(cart[c]))
                       /\ orders'[oid].total_amount = LiveTotal(cart[c])
                       /\ \A m \in MerchIds :
                             merch'[m].stock_quantity
                                = co[c].stock_at_entry[m] - MerchTaken(cart[c], m)
      ]_vars

\* a checkout of a cart of two lines, the beat and the unpublished
\* merchandise, is about to commit: one line was kept, the item loop has
\* passed it, and the stock is as it was
C18_Witness ==
    /\ co[1].pc = "items"
    /\ Len(cart[1]) = 2
    /\ ~merch[1].is_published
    /\ Len(co[1].lines) = 1
    /\ co[1].lines[1].type = "beat"
    /\ co[1].idx = 2
    /\ merch[1].stock_quantity = InitStock

\* 50 per hour with a minimum of two hours, for a duration in half hours
PriceOfHalfHours(d) == IF d <= 4 THEN 100 ELSE 25 * d

\* C14: book_session prices a booking at 50 x max(2, duration in hours): 100
\* up to two hours, 50 per hour beyond; and no later status update,
\* cancellation or payment changes the price of a booking.
C14_SessionPrice ==
    [][/\ \A c \in Clients :
            (bk[c].pc = "insert" /\ BookInsert(c))
            => /\ Len(bookings') = Len(bookings) + 1
               /\ bookings'[Len(bookings')].price
                     = PriceOfHalfHours(bk[c].end_time - bk[c].start_time)
               /\ bookings'[Len(bookings')].start_time = bk[c].start_time
               /\ bookings'[Len(bookings')].end_time = bk[c].end_time
       /\ \A i \in 1..Len(bookings) :
            /\ i <= Len(bookings')
            /\ bookings'[i].price = bookings[i].price
      ]_vars

\* a session of three hours, booked at 150 and since paid
C14_Witness ==
    \E i \in 1..Len(bookings) :
        /\ bookings[i].end_time - bookings[i].start_time = 6
        /\ bookings[i].price = 150
        /\ bookings[i].is_paid

\* the requests of book_session with start < end
Intervals == {se \in (0..MaxTime) \X (0..MaxTime) : se[1] < se[2]}

\* C15: for every stored booking and every request with start < end, the
\* three-way time test of book_session is true exactly when the half-open
\* intervals intersect (existing.start < new.end and new.start <
\* existing.end), so bookings that only share an endpoint do not conflict;
\* and the conflict query finds a row exactly when a booking of the producer
\* on that date that is not CANCELLED intersects the request.
C15_ConflictIffIntersect ==
    \A se \in Intervals :
        /\ \A i \in 1..Len(bookings) :
              TimeOverlap(bookings[i], se[1], se[2])
                 <=> Intersect(bookings[i].start_time, bookings[i].end_time, se[1], se[2])
        /\ \A producer_id \in {ProducerP}, session_date \in {1} :
              (Conflicts(producer_id, session_date, se[1], se[2]) # {})
                 <=> \E i \in 1..Len(bookings) :
                       /\ bookings[i].producer_id = producer_id
                       /\ bookings[i].session_date = session_date
                       /\ bookings[i].status # "cancelled"
                       /\ Intersect(bookings[i].start_time, bookings[i].end_time,
                                    se[1], se[2])

\* a request passed the conflict test although a live booking ends when it
\* starts
C15_Witness ==
    \E c \in Clients :
        /\ bk[c].pc = "insert"
        /\ resp = [op |-> "book_session", code |-> "checked"]
        /\ \E i \in 1..Len(bookings) :
              /\ bookings[i].status # "cancelled"
              /\ bookings[i].producer_id = bk[c].producer_id
              /\ bookings[i].session_date = bk[c].session_date
              /\ bookings[i].end_time = bk[c].start_time

\* the quantity of merchandise m in the order items of order o
RECURSIVE MerchOrdered(_, _, _)
MerchOrdered(rows, o, m) ==
    IF rows = <<>> THEN 0
    ELSE (IF Head(rows).order_id = o /\ Head(rows).merchandise_id = m
          THEN Head(rows).quantity ELSE 0)
         + MerchOrdered(Tail(rows), o, m)

\* C16: the read-modify-write of stock_quantity in checkout is not
\* protected: a checkout of one merchandise line writes back the stock it
\* read when it resolved the cart minus its quantity, whatever the stored
\* stock has become since; so of two checkouts that run at once one
\* decrement can be lost (the witness).
C16_UnprotectedStockUpdate ==
    [][\A c \in Clients :
          (co[c].pc = "items" /\ co[c].idx = 1 /\ CheckoutItem(c)
              /\ co[c].lines[1].type = "merchandise")
          => merch'[co[c].lines[1].id].stock_quantity
                = co[c].stock_at_entry[co[c].lines[1].id] - co[c].lines[1].quantity
      ]_vars

\* both orders exist, with their items and transactions, and the stock is
\* above the initial stock minus the two quantities
C16_Witness ==
    /\ Quiescent
    /\ {1, 2} \subseteq DOMAIN orders
    /\ Len(RowsOf(transactions, 1)) = 1
    /\ Len(RowsOf(transactions, 2)) = 1
    /\ MerchOrdered(orderItems, 1, 1) > 0
    /\ MerchOrdered(orderItems, 2, 1) > 0
    /\ orders[1].customer_id # orders[2].customer_id
    /\ merch[1].stock_quantity
          > InitStock - (MerchOrdered(orderItems, 1, 1) + MerchOrdered(orderItems, 2, 1))

\* C17: checkout decrements the stock of every resolved merchandise line by
\* the line quantity and checks nothing: after a successful checkout the
\* stock is the stock before minus the quantity, also when that is below
\* zero.
C17_StockDecrementUnchecked ==
    [][\A c \in Clients :
          /\ (co[c].pc = "items" /\ co[c].idx <= Len(co[c].lines) /\ CheckoutItem(c)
                 /\ co[c].lines[co[c].idx].type = "merchandise")
                => merch'[co[c].lines[co[c].idx].id].stock_quantity
                      = merch[co[c].lines[co[c].idx].id].stock_quantity
                          - co[c].lines[co[c].idx].quantity
          /\ CheckoutSucceeds(c)
                => \A m \in MerchIds :
                      merch'[m].stock_quantity
                         = co[c].stock_at_entry[m] - MerchTaken(cart[c], m)
      ]_vars

\* the second buyer's checkout went through and left the stock below zero
C17_Witness ==
    /\ resp = [op |-> "checkout", code |-> "process_payment"]
    /\ merch[1].stock_quantity < 0
    /\ Len(transactions) = 2
    /\ merch[1].stock_quantity
          = InitStock - (MerchOrdered(orderItems, 1, 1) + MerchOrdered(orderItems, 2, 1))

\* The status form is accepted when the caller is a producer, the booking is
\* the caller's and the posted status is one of the four.
FourSessionStatuses == {"requested", "confirmed", "completed", "cancelled"}

SessionAccepted(f) ==
    /\ Role(f.caller) = "producer"
    /\ f.session_id \in 1..Len(bookings)
    /\ bookings[f.session_id].producer_id = f.caller
    /\ f.status \in FourSessionStatuses

\* C21: update_session_status posted by the producer of the booking with one
\* of the four statuses sets the booking to that status whatever its current
\* status, leaves every other booking alone and adds exactly one Message, from
\* the producer to the booking's artist; with an invalid status, or posted by
\* anyone who is not the booking's producer, it changes no booking and adds no
\* Message.
C21_UpdateSessionStatus ==
    [][\A f \in SessionForms :
          PostsSession(f) =>
             IF SessionAccepted(f)
             THEN /\ Len(bookings') = Len(bookings)
                  /\ bookings'[f.session_id].status = f.status
                  /\ \A i \in 1..Len(bookings) :
                        i # f.session_id => bookings'[i] = bookings[i]
                  /\ Len(messages') = Len(messages) + 1
                  /\ SubSeq(messages', 1, Len(messages)) = messages
                  /\ messages'[Len(messages')].sender_id = f.caller
                  /\ messages'[Len(messages')].recipient_id =
                        bookings[f.session_id].artist_id
             ELSE UNCHANGED <<bookings, messages>>]_vars

\* A booking taken out of COMPLETED by its producer, the artist notified of
\* each of the two changes.
C21_Witness ==
    /\ resp = [op |-> "update_session_status", code |-> "updated"]
    /\ Len(bookings) >= 1
    /\ bookings[1].status = "requested"
    /\ Len(messages) = 3
    /\ messages[2].about = "completed"
    /\ messages[3].about = "requested"
    /\ messages[3].recipient_id = bookings[1].artist_id

\* An order item names exactly one product, the one its tag says.
OrderItemTagged(item) ==
    \/ item.item_type = "beat" /\ item.beat_id # Null /\ item.merchandise_id = Null
    \/ item.item_type = "merchandise" /\ item.merchandise_id # Null /\ item.beat_id = Null

\* C22: in every reachable state every OrderItem is tagged beat or merchandise
\* and has exactly one of beat_id / merchandise_id set, the one matching the
\* tag; and no step changes the price or the quantity of a stored OrderItem.
C22_OrderItemSnapshot ==
    /\ [](\A i \in 1..Len(orderItems) : OrderItemTagged(orderItems[i]))
    /\ [][\A i \in 1..Len(orderItems) :
            /\ i <= Len(orderItems')
            /\ orderItems'[i].price = orderItems[i].price
            /\ orderItems'[i].quantity = orderItems[i].quantity]_vars

\* The administrators' user list: logged-in artists buy the beat and book
\* sessions with either producer, and anyone posts the delete form of any
\* user id, one request at a time.
WithinUsers ==
    /\ nextOrderId <= MaxOrders + 1
    /\ Len(bookings) <= MaxBookings
    /\ Len(messages) <= MaxMessages

DeleteForms == [caller : {AdminId, AdminB, ArtistA}, user_id : Users \cup {Cardinality(Users) + 1}]

PostsDelete(f) == DeleteUser(f.caller, f.user_id)

NextUsers ==
    \/ /\ ClientUser(1) \in users /\ cart[1] = <<>>
       /\ AddToCart(1, 1, "beat", 1)
    \/ /\ Quiescent /\ ClientUser(1) \in users
       /\ CheckoutBegin(1, TRUE, TRUE, "paypal", None)
       /\ WithinUsers'
    \/ CheckoutItem(1)
    \/ CheckoutFinish(1)
    \/ /\ Quiescent
       /\ \E c \in Clients, producer_id \in {ProducerP, ProducerQ} :
             ClientUser(c) \in users /\ BookCheck(c, producer_id, 1, 0, 2)
       /\ WithinUsers'
    \/ (\E c \in Clients : BookInsert(c)) /\ WithinUsers'
    \/ Quiescent /\ (\E f \in DeleteForms : PostsDelete(f))

SpecUsers == InitFixed /\ [][NextUsers]_vars

\* how many rows of a table name the user
MessagesOf(rows, user_id) ==
    Cardinality({i \in 1..Len(rows) : MessageOf(user_id, rows[i])})

BookingsOf(rows, user_id) ==
    Cardinality({i \in 1..Len(rows) : BookingOf(user_id, rows[i])})

\* rows2 is rows with some rows left out, the others in their order
RECURSIVE IsSubsequence(_, _)
IsSubsequence(rows2, rows) ==
    IF rows2 = <<>> THEN TRUE
    ELSE IF rows = <<>> THEN FALSE
    ELSE IF Head(rows2) = Head(rows) THEN IsSubsequence(Tail(rows2), Tail(rows))
    ELSE IsSubsequence(rows2, Tail(rows))

DeleteAllowed(f) ==
    /\ f.caller \in users /\ Role(f.caller) = "admin"
    /\ f.user_id \in users
    /\ f.user_id # f.caller
    /\ Role(f.user_id) # "admin"

\* C23: delete_user posted by an admin for a non-admin user other than the
\* caller removes exactly the Messages sent or received by that user and the
\* SessionBookings in which that user is artist or producer, keeps every
\* Order (that user's with customer_id null, the others as they were) and
\* every OrderItem and Transaction, and removes the user; posted for the
\* caller's own account or for an admin account it changes nothing.
C23_DeleteUser ==
    [][\A f \in DeleteForms :
          PostsDelete(f) =>
             IF DeleteAllowed(f)
             THEN /\ users' = users \ {f.user_id}
                  /\ MessagesOf(messages', f.user_id) = 0
                  /\ IsSubsequence(messages', messages)
                  /\ Len(messages') =
                        Len(messages) - MessagesOf(messages, f.user_id)
                  /\ BookingsOf(bookings', f.user_id) = 0
                  /\ IsSubsequence(bookings', bookings)
                  /\ Len(bookings') =
                        Len(bookings) - BookingsOf(bookings, f.user_id)
                  /\ DOMAIN orders' = DOMAIN orders
                  /\ \A o \in DOMAIN orders :
                        /\ orders'[o].customer_id =
                              IF orders[o].customer_id = f.user_id THEN Null
                              ELSE orders[o].customer_id
                        /\ [orders'[o] EXCEPT !.customer_id = Null]
                              = [orders[o] EXCEPT !.customer_id = Null]
                  /\ UNCHANGED <<orderItems, transactions>>
             ELSE (f.user_id = f.caller \/ Role(f.user_id) = "admin")
                     => UNCHANGED <<storeVars, users>>]_vars

\* An artist who bought a beat and booked a session has been deleted: the
\* order is kept with its item and transaction and without a customer, the
\* booking and its message are gone.
C23_Witness ==
    /\ resp = [op |-> "delete_user", code |-> "deleted"]
    /\ ArtistA \notin users
    /\ 1 \in DOMAIN orders /\ orders[1].customer_id = Null
    /\ Len(orderItems) = 1 /\ Len(transactions) = 1
    /\ Len(bookings) = 1 /\ bookings[1].artist_id = ArtistB
    /\ Len(messages) = 1

\* The calendar of one producer, one request at a time and long enough for
\* a booking to be cancelled, its slot booked again and its status posted.
WithinCalendar ==
    /\ Len(messages) <= MaxMessages + 1
    /\ Len(bookings) <= MaxBookings

NextCalendar ==
    \/ /\ Quiescent
       /\ \E c \in Clients, slot \in BookSlots : BookCheck(c, ProducerP, 1, slot[1], slot[2])
       /\ WithinCalendar'
    \/ (\E c \in Clients : BookInsert(c)) /\ WithinCalendar'
    \/ /\ Quiescent
       /\ \E c \in Clients, sid \in 1..MaxBookings : CancelSession(ClientUser(c), sid)
       /\ WithinCalendar'
    \/ /\ Quiescent
       /\ \E sid \in 1..MaxBookings, st \in SessionStatus :
             UpdateSessionStatus(ProducerP, sid, st, None)
       /\ WithinCalendar'

SpecCalendar == InitFixed /\ [][NextCalendar]_vars

\* the pairs of stored bookings that take the same producer at the same time
Clashes ==
    {pair \in (1..Len(bookings)) \X (1..Len(bookings)) :
        /\ pair[1] < pair[2]
        /\ bookings[pair[1]].producer_id = bookings[pair[2]].producer_id
        /\ bookings[pair[1]].session_date = bookings[pair[2]].session_date
        /\ bookings[pair[1]].status # "cancelled"
        /\ bookings[pair[2]].status # "cancelled"
        /\ Intersect(bookings[pair[1]].start_time, bookings[pair[1]].end_time,
                     bookings[pair[2]].start_time, bookings[pair[2]].end_time)}

\* C24: in every state reached by book_session, cancel_session and
\* update_session_status requests served one at a time, no two bookings of
\* the same producer and date that are both not CANCELLED have intersecting
\* [start_time, end_time) intervals.
C24_NoLiveClash == Clashes = {}

\* C25: a Transaction that is COMPLETED stays COMPLETED whatever webhook is
\* delivered next, and so an Order that a webhook has set to PAID never has
\* its Transaction in FAILED.
C25_CompletedTerminal ==
    /\ [][\A t \in 1..Len(transactions) :
            transactions[t].status = "completed"
               => transactions'[t].status = "completed"]_vars
    /\ [](\A t \in 1..Len(transactions) :
            (IsGoods(t) /\ orders[transactions[t].order_id].status = "paid")
               => transactions[t].status # "failed")

\* C26: a session-payment Transaction keeps, through any webhook delivery
\* that leaves it COMPLETED, the session_id its payment_details were created
\* with, so that the next delivery or lookup resolves the same booking.
C26_DetailsKeepSession ==
    [][\A t \in 1..Len(transactions) :
          (/\ GetPaymentDetails(transactions[t]).session_id # Null
           /\ transactions'[t].status = "completed")
             => GetPaymentDetails(transactions'[t]).session_id
                   = GetPaymentDetails(transactions[t]).session_id]_vars

\* C27: in every state of the committed store, each Order has exactly one
\* Transaction linked to it and OrderItems whose price x quantity add up to
\* its total_amount: the rows of a checkout are committed together.
C27_CheckoutAtomic ==
    \A o \in DOMAIN orders :
        /\ Cardinality({t \in 1..Len(transactions) : transactions[t].order_id = o}) = 1
        /\ ItemsTotal(orderItems, o) = orders[o].total_amount

\* C28: a delivery to payment_webhook leaves an Order that is SHIPPED,
\* DELIVERED or CANCELLED in that status; it sets PAID only on an Order that
\* is PENDING or PAID.
C28_WebhookNeverBackwards ==
    [][resp'.op = "payment_webhook" =>
          \A o \in DOMAIN orders :
             orders[o].status \in {"shipped", "delivered", "cancelled"}
                => orders'[o].status = orders[o].status]_vars

\* The cart pages: one client adds items with any posted quantity, posts the
\* cart form with any quantity for a line, removes lines, and checks out.
PostedQuantities == (0 - 1)..MaxQty

WithinCart ==
    /\ nextOrderId <= MaxOrders + 1
    /\ \A i \in 1..Len(cart[1]) : cart[1][i].quantity \in PostedQuantities

NextCart ==
    \/ /\ \E item_type \in {"beat", "merchandise"}, quantity \in PostedQuantities :
             AddToCart(1, 1, item_type, quantity)
       /\ WithinCart'
    \/ \E item_type \in {"beat", "merchandise"}, quantity \in PostedQuantities :
          UpdateCart(1, <<[id |-> 1, type |-> item_type, quantity |-> quantity]>>)
    \/ \E item_type \in {"beat", "merchandise"} : RemoveFromCart(1, item_type, 1)
    \/ CheckoutBegin(1, TRUE, TRUE, "paypal", None) /\ WithinCart'
    \/ CheckoutItem(1)
    \/ CheckoutFinish(1)

SpecCart == InitFixed /\ [][NextCart]_vars

\* C29: every cart line has quantity >= 1 whatever add_to_cart, update_cart
\* and remove_from_cart requests were served, so every OrderItem has
\* quantity >= 1, every Order has total_amount >= 0, and no checkout step
\* increases the stock of a Merchandise.
C29_QuantitiesPositive ==
    /\ [](\A c \in Clients : \A i \in 1..Len(cart[c]) : cart[c][i].quantity >= 1)
    /\ [](\A i \in 1..Len(orderItems) : orderItems[i].quantity >= 1)
    /\ [](\A o \in DOMAIN orders : orders[o].total_amount >= 0)
    /\ [][\A m \in MerchIds : merch'[m].stock_quantity <= merch[m].stock_quantity]_vars

\* C30: the Order of a checkout that completes has at least one OrderItem;
\* a checkout of a cart none of whose lines resolves to a published item
\* does not complete: it leaves no Order, no Transaction, and the cart as
\* it was.
C30_OrderHasItems ==
    [][\A c \in Clients :
          CheckoutSucceeds(c)
             => /\ Len(RowsOf(orderItems', co[c].order_id)) >= 1
                /\ ResolvedLines(cart[c]) # <<>>]_vars
====
